---- MODULE Spec2Model ----
(***************************************************************************)
(* SmartMaintenance backend: the synthetic telemetry generator with        *)
(* anomaly injection (services/sensorSimulator.js), the threshold          *)
(* evaluator (services/safetyThresholdService.js), the history buffer      *)
(* (controllers/sensorController.js), the alert log                        *)
(* (controllers/safetyController.js) and the Socket.IO connection registry *)
(* (services/socketService.js).                                            *)
(*                                                                         *)
(* Numbers.  A physical value v is held as the integer 1000 * v            *)
(* (6.5 mm/s is 6500), so that the rounding to two decimals done by        *)
(* toFixed(2) is a real operation (to a multiple of 10).  The JavaScript   *)
(* value NaN is the integer NaN below, and every comparison goes through   *)
(* Lt/Le/Ge, which are false when either side is NaN, as in JavaScript.    *)
(*                                                                         *)
(* Time.  Date.now() is the variable clock, counted in seconds since the   *)
(* module was loaded: the default tick interval of 1000 ms is 1, 2 minutes *)
(* are 120, 5 minutes 300, 2 hours 7200 and 3 hours 10800.  A timestamp    *)
(* (toISOString()) is the clock value it was taken at.                     *)
(*                                                                         *)
(* Outputs.  generated, response, emitted and tickLog hold what the step   *)
(* just taken returned, answered, emitted and logged; a step that has no   *)
(* such output resets them.                                                *)
(***************************************************************************)
EXTENDS Integers, Sequences, FiniteSets, TLC

VARIABLES
    clock,             \* Date.now()
    anomalyState,      \* sensorSimulator.js: anomalyState[type]
    focus,             \* SpecWave: the sensor type whose generator is exercised
    safetyThresholds,  \* safetyThresholdService.js: safetyThresholds
    checkRun,          \* SpecEval: the checkReadings call in progress, or NoRun
    latestReadings,    \* sensorController.js: latestReadings
    readingsHistory,   \* sensorController.js: readingsHistory
    readingsCounter,   \* sensorController.js: readingsCounter
    alertsHistory,     \* safetyController.js: alertsHistory
    activeConnections, \* socketService.js: activeConnections
    closed,            \* the ids of the sockets that have disconnected
    intervals,         \* the setInterval timers of startSimulator that are set
    started,           \* the number of startSimulator calls so far
    ticksFired,        \* the number of interval callbacks started so far
    inflight,          \* the callbacks suspended at await checkReadings(...)
    caughtErrors,      \* the callbacks whose catch logged an error, by number
    crashed,           \* an exception reached the top of the event loop
    generated,         \* output: the value returned by generateReading
    response,          \* output: the HTTP response sent by a controller
    emitted,           \* output: the Socket.IO emissions, in order
    tickLog,           \* output: what became of the callback that ran
    worker,            \* worker variant: the module variable worker (0: null)
    tickWorker,        \* worker variant: the const worker of startSimulator
    liveWorkers,       \* worker variant: the worker threads that are running
    spawned,           \* worker variant: the number of workers created
    workerEvents,      \* worker variant: 'error' / 'exit' events not yet handled
    mailbox,           \* worker variant: 'generate' commands not yet answered
    simLatestReadings, \* worker variant: the simulator's own latestReadings
    lastFrontendUpdate \* worker variant: lastFrontendUpdate of startSimulator

waveVars == <<clock, anomalyState, focus>>

evalVars == <<safetyThresholds, checkRun>>

histVars == <<latestReadings, readingsHistory, readingsCounter>>

regVars == <<activeConnections, closed>>

schedVars == <<intervals, started, ticksFired, inflight, caughtErrors, crashed>>

workerVars == <<worker, tickWorker, liveWorkers, spawned, workerEvents, mailbox,
                simLatestReadings, lastFrontendUpdate>>

vars == <<clock, anomalyState, focus, safetyThresholds, checkRun,
          latestReadings, readingsHistory, readingsCounter, alertsHistory,
          activeConnections, closed, intervals, started, ticksFired, inflight,
          caughtErrors, crashed, generated, response, emitted, tickLog,
          worker, tickWorker, liveWorkers, spawned, workerEvents, mailbox,
          simLatestReadings, lastFrontendUpdate>>

----------------------------------------------------------------------------
(* Bounds of the model *)

\* SpecWave: the clock stops advancing here
MaxClock == 7560

\* SpecHistory: the number of updateLatestReadings calls
MaxCalls == 704

\* SpecAlerts: the number of alerts stored
MaxAlerts == 120

\* Spec: the number of interval callbacks, of startSimulator calls and of
\* exceptions thrown inside callbacks
MaxTicks == 3

MaxStarts == 2

MaxFaults == 1

----------------------------------------------------------------------------
(* JavaScript numbers *)

NaN == 0 - 1000000000

\* undefined; ToNumber(undefined) is NaN
Undefined == 0 - 1000000001

\* a JSON value that is no number and that parseFloat cannot read ("abc", null)
NotANumberText == 0 - 1000000002

IsNaN(x) == x \in {NaN, Undefined, NotANumberText}

\* parseFloat(x) of a JSON number or of a text that is no number
parseFloat(x) == IF x \in {NaN, Undefined, NotANumberText} THEN NaN ELSE x

Lt(a, b) == ~IsNaN(a) /\ ~IsNaN(b) /\ a < b

Le(a, b) == ~IsNaN(a) /\ ~IsNaN(b) /\ a <= b

Ge(a, b) == ~IsNaN(a) /\ ~IsNaN(b) /\ a >= b

Gt(a, b) == ~IsNaN(a) /\ ~IsNaN(b) /\ a > b

\* Math.max / Math.min (NaN if either argument is NaN)
MathMax(a, b) == IF IsNaN(a) \/ IsNaN(b) THEN NaN ELSE IF a >= b THEN a ELSE b

MathMin(a, b) == IF IsNaN(a) \/ IsNaN(b) THEN NaN ELSE IF a <= b THEN a ELSE b

\* x / y truncated toward zero, for the fixed-point products below
TruncDiv(x, y) == IF x >= 0 THEN x \div y ELSE 0 - ((0 - x) \div y)

----------------------------------------------------------------------------
(* sensorSimulator.js: configuration *)

SensorTypes == {"VIBRATION", "TEMPERATURE", "CURRENT"}

\* Object.keys(SENSOR_TYPES), in insertion order
SensorTypeOrder == <<"VIBRATION", "TEMPERATURE", "CURRENT">>

SENSOR_TYPES ==
    [ VIBRATION   |-> [min |-> 0, max |-> 15000, safeMax |-> 10000,
                       baseValue |-> 6500, normalVariation |-> 1500, unit |-> "mm/s"],
      TEMPERATURE |-> [min |-> 20000, max |-> 100000, safeMax |-> 80000,
                       baseValue |-> 60000, normalVariation |-> 8000, unit |-> "C"],
      CURRENT     |-> [min |-> 0, max |-> 50000, safeMax |-> 40000,
                       baseValue |-> 30000, normalVariation |-> 5000, unit |-> "A"] ]

\* Math.random() draws of scheduleNextAnomaly: the delay (2 + r) hours lies
\* in [7200, 10800), the duration (2 + 3r) minutes in [120, 300)
DelayDraws == {7200, 7290}

DurationDraws == {120, 210}

\* Math.sin(dailyCyclePosition) * 1000, a function of the wall-clock hour
SineSamples == {0 - 1000, 1000}

\* (Math.random() * 2 - 1) * 1000, in [-1000, 1000)
NoiseSamples == {0 - 1000, 999}

----------------------------------------------------------------------------
(* sensorSimulator.js: the waveform *)

\* Math.sin(Math.PI * k / d) * 1000 for 0 <= k <= d (Bhaskara's rational
\* approximation, exact at 0, 1/6, 1/2, 5/6 and 1), extended as an odd
\* function below 0 and beyond d
SinPiUnit(k, d) == (16000 * k * (d - k)) \div (5 * d * d - 4 * k * (d - k))

SinPi(k, d) ==
    IF k < 0 THEN 0 - SinPiUnit(IF 0 - k > d THEN d ELSE 0 - k, d)
    ELSE IF k > d THEN 0 - SinPiUnit(IF k - d > d THEN d ELSE k - d, d)
    ELSE SinPiUnit(k, d)

\* scheduleNextAnomaly(sensorType): the new anomalyState entry
scheduleNextAnomaly(now, delay, duration) ==
    [active |-> FALSE, nextAnomalyTime |-> now + delay, duration |-> duration,
     endTime |-> NaN]

\* a variant that starts an anomaly only in the very millisecond it is due
StartIfDue_exact(state, now) ==
    IF ~state.active /\ now = state.nextAnomalyTime
    THEN [state EXCEPT !.active = TRUE, !.endTime = now + state.duration]
    ELSE state

\* a variant that starts an anomaly whenever none is active
StartIfDue_always(state, now) ==
    IF ~state.active
    THEN [state EXCEPT !.active = TRUE, !.endTime = now + state.duration]
    ELSE state

\* generateReading, lines 78-83: start an anomaly that is due
StartIfDue(state, now) ==
    IF ~state.active /\ Ge(now, state.nextAnomalyTime)
    THEN [state EXCEPT !.active = TRUE, !.endTime = now + state.duration]
    ELSE state

\* a variant that lets an anomaly run on past its end time
EndIfOver_never(state, now, delay, duration) == state

\* generateReading, lines 85-89: end an anomaly that is over, and reschedule
EndIfOver(state, now, delay, duration) ==
    IF state.active /\ Ge(now, state.endTime)
    THEN scheduleNextAnomaly(now, delay, duration)
    ELSE state

\* the anomalyState entry after generateReading's two checks
NextAnomalyState(state, now, delay, duration) ==
    EndIfOver(StartIfDue(state, now), now, delay, duration)

\* Math.sin(dailyCyclePosition) * (config.normalVariation * 0.5)
timeBasedVariation(config, s) == TruncDiv(s * config.normalVariation, 2000)

\* a variant with the noise ten times as wide
noiseOf_tenfold(config, u) == TruncDiv(u * config.normalVariation * 3, 1000)

\* (Math.random() * 2 - 1) * (config.normalVariation * 0.3)
noiseOf(config, u) == TruncDiv(u * config.normalVariation * 3, 10000)

\* (config.safeMax - config.baseValue) * 1.2
anomalyExcess(config) == ((config.safeMax - config.baseValue) * 12) \div 10

\* anomalyShape * anomalyExcess, with anomalyProgress = (now - start) / duration
anomalyContribution(config, state, now) ==
    TruncDiv(SinPi(now - (state.endTime - state.duration), state.duration)
             * anomalyExcess(config), 1000)

\* lines 99-112: the value before clamping
rawValue(config, state, now, s, u) ==
    IF state.active
    THEN config.baseValue + timeBasedVariation(config, s) + noiseOf(config, u)
         + anomalyContribution(config, state, now)
    ELSE config.baseValue + timeBasedVariation(config, s) + noiseOf(config, u)

\* line 115: Math.max(config.min, Math.min(config.max, value))
clampValue(config, value) == MathMax(config.min, MathMin(config.max, value))

\* rounding by Math.round(value * 100) with the division by 100 forgotten
toFixed2_unscaled(value) == IF IsNaN(value) THEN NaN ELSE ((value + 5) \div 10) * 1000

\* line 118: parseFloat(value.toFixed(2)), for value >= 0
toFixed2(value) == IF IsNaN(value) THEN NaN ELSE ((value + 5) \div 10) * 10

\* the reading returned by generateReading(sensorType), given the state left
\* by the two anomaly checks
readingWith(config, state, now, s, u) ==
    [value |-> toFixed2(clampValue(config, rawValue(config, state, now, s, u))),
     unit |-> config.unit,
     timestamp |-> now]

\* generateReading(sensorType) with the shipped configuration
readingOf(sensorType, state, now, s, u) ==
    readingWith(SENSOR_TYPES[sensorType], state, now, s, u)

----------------------------------------------------------------------------
(* safetyThresholdService.js: the threshold table *)

DEFAULT_THRESHOLDS ==
    [ VIBRATION   |-> [min |-> 0, max |-> 10000, unit |-> "mm/s"],
      TEMPERATURE |-> [min |-> 20000, max |-> 80000, unit |-> "C"],
      CURRENT     |-> [min |-> 0, max |-> 40000, unit |-> "A"] ]

\* property names every object inherits from Object.prototype
ObjectPrototypeKeys == {"toString"}

\* the kind of value safetyThresholds[sensorType] evaluates to
LookupKind(table, sensorType) ==
    IF sensorType \in DOMAIN table THEN "own"
    ELSE IF sensorType \in ObjectPrototypeKeys THEN "inherited"
    ELSE "undefined"

\* safetyThresholds[sensorType] read as an entry: an inherited function has
\* none of the fields
EntryOf(table, sensorType) ==
    IF sensorType \in DOMAIN table THEN table[sensorType]
    ELSE [min |-> Undefined, max |-> Undefined, unit |-> ""]

\* the entry replaced by the supplied object instead of merged with it
MergePatch_replace(entry, thresholds) ==
    [min |-> thresholds.min, max |-> thresholds.max, unit |-> entry.unit]

\* { ...entry, ...thresholds }: thresholds holds the keys that were supplied
MergePatch(entry, thresholds) ==
    [min  |-> IF thresholds.min = Undefined THEN entry.min ELSE thresholds.min,
     max  |-> IF thresholds.max = Undefined THEN entry.max ELSE thresholds.max,
     unit |-> entry.unit]

\* the table with table[key] = entry
PutEntry(table, key, entry) ==
    [k \in DOMAIN table \cup {key} |-> IF k = key THEN entry ELSE table[k]]

\* updateThreshold(sensorType, thresholds): the exception, or the table after
\* and the entry returned
updateThreshold(table, sensorType, thresholds) ==
    IF LookupKind(table, sensorType) = "undefined"
    THEN [threw |-> TRUE, table |-> table,
          value |-> EntryOf(table, sensorType)]
    ELSE [threw |-> FALSE,
          table |-> PutEntry(table, sensorType,
                             MergePatch(EntryOf(table, sensorType), thresholds)),
          value |-> MergePatch(EntryOf(table, sensorType), thresholds)]

\* getThresholds(sensorType): the entry, or null (reported as "null" kind)
getThresholds(table, sensorType) ==
    [found |-> LookupKind(table, sensorType) # "undefined",
     value |-> EntryOf(table, sensorType)]

\* isReadingSafe(sensorType, value)
isReadingSafe(table, sensorType, value) ==
    IF LookupKind(table, sensorType) = "undefined" THEN TRUE
    ELSE Ge(value, EntryOf(table, sensorType).min)
         /\ Le(value, EntryOf(table, sensorType).max)

\* the alert's threshold taken from the defaults instead of the live table
alertOf_staleThreshold(table, entry, now) ==
    [type      |-> entry.type,
     value     |-> entry.value,
     unit      |-> IF entry.unit # "" THEN entry.unit
                   ELSE EntryOf(table, entry.type).unit,
     threshold |-> EntryOf(DEFAULT_THRESHOLDS, entry.type).max,
     timestamp |-> IF entry.timestamp # Undefined THEN entry.timestamp ELSE now,
     message   |-> <<entry.type, entry.value,
                     IF entry.unit # "" THEN entry.unit
                     ELSE EntryOf(table, entry.type).unit>>]

\* the alert object of checkReadings, lines 149-156; the message is the
\* template's three substitutions
alertOf(table, entry, now) ==
    [type      |-> entry.type,
     value     |-> entry.value,
     unit      |-> IF entry.unit # "" THEN entry.unit
                   ELSE EntryOf(table, entry.type).unit,
     threshold |-> EntryOf(table, entry.type).max,
     timestamp |-> IF entry.timestamp # Undefined THEN entry.timestamp ELSE now,
     message   |-> <<entry.type, entry.value,
                     IF entry.unit # "" THEN entry.unit
                     ELSE EntryOf(table, entry.type).unit>>]

\* A call of checkReadings: the entries of readings in Object.entries order,
\* the index of the entry whose sink write is awaited (Len + 1 when the loop
\* is over), the alerts pushed so far, and, for every entry looked at so far,
\* the table entry it was compared with.
NoRun == [readings |-> <<>>, idx |-> 0, alerts |-> <<>>, judged |-> <<>>,
          done |-> FALSE]

JudgedOf(table, sensorType) ==
    [kind |-> LookupKind(table, sensorType), entry |-> EntryOf(table, sensorType)]

\* the for loop of checkReadings from entry i on, up to the next await
\* writePoint(...) or to the return
RECURSIVE checkLoop(_, _, _, _, _, _)
checkLoop(table, now, readings, i, alerts, judged) ==
    IF i > Len(readings)
    THEN [readings |-> readings, idx |-> i, alerts |-> alerts,
          judged |-> judged, done |-> TRUE]
    ELSE IF ~isReadingSafe(table, readings[i].type, readings[i].value)
    THEN [readings |-> readings, idx |-> i,
          alerts |-> Append(alerts, alertOf(table, readings[i], now)),
          judged |-> Append(judged, JudgedOf(table, readings[i].type)),
          done |-> FALSE]
    ELSE checkLoop(table, now, readings, i + 1, alerts,
                   Append(judged, JudgedOf(table, readings[i].type)))

\* checkReadings(readings) up to its first await or its return
checkReadingsStart(table, now, readings) ==
    checkLoop(table, now, readings, 1, <<>>, <<>>)

\* the awaited writePoint settled (a rejection is caught and logged, lines
\* 173-175): the loop goes on with the next entry
checkReadingsResume(table, now, run) ==
    checkLoop(table, now, run.readings, run.idx + 1, run.alerts, run.judged)

----------------------------------------------------------------------------
(* safetyController.js: PUT /api/safety/thresholds/:sensorType *)

NoResponse == [op |-> "none", status |-> 0, threw |-> FALSE]

\* the thresholds object built from the request body, lines 69-71
thresholdsOfBody(bodyMin, bodyMax) ==
    [min |-> IF bodyMin # Undefined THEN parseFloat(bodyMin) ELSE Undefined,
     max |-> IF bodyMax # Undefined THEN parseFloat(bodyMax) ELSE Undefined]

\* exports.updateThreshold(req, res): the response, and the table after
putThreshold(table, sensorType, bodyMin, bodyMax) ==
    IF sensorType = ""
    THEN [status |-> 400, table |-> table, data |-> EntryOf(table, sensorType)]
    ELSE IF bodyMin = Undefined /\ bodyMax = Undefined
    THEN [status |-> 400, table |-> table, data |-> EntryOf(table, sensorType)]
    ELSE IF updateThreshold(table, sensorType,
                            thresholdsOfBody(bodyMin, bodyMax)).threw
    THEN [status |-> 500, table |-> table, data |-> EntryOf(table, sensorType)]
    ELSE [status |-> 200,
          table |-> updateThreshold(table, sensorType,
                                    thresholdsOfBody(bodyMin, bodyMax)).table,
          data |-> updateThreshold(table, sensorType,
                                   thresholdsOfBody(bodyMin, bodyMax)).value]

----------------------------------------------------------------------------
(* sensorController.js: the history buffer *)

MAX_HISTORY_SIZE == 300

HISTORY_SAMPLING_RATE == 2

\* the overflow margin of line 138
HISTORY_MARGIN == 50

\* the ceiling of line 191
MAX_LIMIT == 100

\* the default of the limit query parameter, line 188
DEFAULT_LIMIT == 60

\* array.slice(0, end)
sliceTo(array, end) ==
    IF IsNaN(end) THEN <<>>
    ELSE IF end < 0
         THEN SubSeq(array, 1, IF Len(array) + end > 0 THEN Len(array) + end ELSE 0)
         ELSE SubSeq(array, 1, IF end < Len(array) THEN end ELSE Len(array))

\* lines 137-141 without the batch: the history is never cut
trimHistory_never(history) == history

\* lines 137-141: cut the history back once it is over size plus margin
trimHistory(history) ==
    IF Len(history) > MAX_HISTORY_SIZE + HISTORY_MARGIN
    THEN sliceTo(history, MAX_HISTORY_SIZE)
    ELSE history

\* a variant that refreshes the latest readings only on the stored calls
updateLatestReadings_sampledLatest(latest, history, counter, readings, now) ==
    IF (counter + 1) % HISTORY_SAMPLING_RATE # 0
    THEN [latestReadings |-> latest, readingsHistory |-> history,
          readingsCounter |-> counter + 1]
    ELSE [latestReadings |-> readings,
          readingsHistory |->
              trimHistory(<<[timestamp |-> now, readings |-> readings]>> \o history),
          readingsCounter |-> counter + 1]

\* updateLatestReadings(readings): the three module variables after the call
updateLatestReadings(latest, history, counter, readings, now) ==
    IF (counter + 1) % HISTORY_SAMPLING_RATE # 0
    THEN [latestReadings |-> readings, readingsHistory |-> history,
          readingsCounter |-> counter + 1]
    ELSE [latestReadings |-> readings,
          readingsHistory |->
              trimHistory(<<[timestamp |-> now, readings |-> readings]>> \o history),
          readingsCounter |-> counter + 1]

\* parseInt(limit) of the query parameter
parseInt(limit) == IF IsNaN(limit) THEN NaN ELSE limit

\* line 191: Math.min(parseInt(limit), 100), limit defaulting to 60
maxLimitOf(limit) ==
    MathMin(parseInt(IF limit = Undefined THEN DEFAULT_LIMIT ELSE limit), MAX_LIMIT)

\* the readings of an entry that are of the given type
ReadingsOfType(entry, sensorType) ==
    SelectSeq(entry.readings, LAMBDA r : r.type = sensorType)

\* lines 201-202: whether entry[sensorType] is truthy.  Besides the readings
\* the entry has its own key "timestamp" and the keys inherited from
\* Object.prototype; neither value survives as a reading in the JSON sent.
hasSensorData(entry, sensorType) ==
    \/ ReadingsOfType(entry, sensorType) # <<>>
    \/ sensorType = "timestamp"
    \/ sensorType \in ObjectPrototypeKeys

\* lines 198-205: project every entry to the type, dropping those without it
RECURSIVE projectHistory(_, _)
projectHistory(entries, sensorType) ==
    IF entries = <<>> THEN <<>>
    ELSE IF ~hasSensorData(Head(entries), sensorType)
         THEN projectHistory(Tail(entries), sensorType)
         ELSE <<[timestamp |-> Head(entries).timestamp,
                 readings |-> ReadingsOfType(Head(entries), sensorType)]>>
              \o projectHistory(Tail(entries), sensorType)

\* exports.getReadingsHistory: the data of the response; sensorType "" is an
\* absent query parameter
getReadingsHistory(history, sensorType, limit) ==
    IF sensorType # ""
    THEN projectHistory(sliceTo(history, maxLimitOf(limit)), sensorType)
    ELSE sliceTo(history, maxLimitOf(limit))

----------------------------------------------------------------------------
(* safetyController.js: the alert log *)

MAX_ALERTS_HISTORY == 100

\* the newest alert dropped instead of the oldest (shift for pop)
storeAlert_dropNewest(log, alert) ==
    IF Len(log) + 1 > MAX_ALERTS_HISTORY THEN log ELSE <<alert>> \o log

\* storeAlert(alert): unshift, then pop when over the limit
storeAlert(log, alert) ==
    IF Len(log) + 1 > MAX_ALERTS_HISTORY
    THEN SubSeq(<<alert>> \o log, 1, Len(log))
    ELSE <<alert>> \o log

\* exports.processAlerts(alerts): alerts.forEach(storeAlert)
RECURSIVE processAlerts(_, _)
processAlerts(log, alerts) ==
    IF alerts = <<>> THEN log
    ELSE processAlerts(storeAlert(log, Head(alerts)), Tail(alerts))

----------------------------------------------------------------------------
(* socketService.js: the connection registry *)

\* the registry entry made by the connection handler, lines 309-316
newConnection(id) ==
    [id |-> id,
     subscriptions |-> [sensorReadings |-> TRUE, safetyAlerts |-> TRUE],
     user |-> "null"]

\* the flag flipped instead of set: a second call undoes the first
setSubscription_toggle(connection, channel, flag) ==
    [connection EXCEPT !.subscriptions =
        [ch \in DOMAIN connection.subscriptions \cup {channel} |->
            IF ch # channel THEN connection.subscriptions[ch]
            ELSE IF channel \in DOMAIN connection.subscriptions
                 THEN ~connection.subscriptions[ch] ELSE flag]]

\* connection.subscriptions[channel] = flag
setSubscription(connection, channel, flag) ==
    [connection EXCEPT !.subscriptions =
        [ch \in DOMAIN connection.subscriptions \cup {channel} |->
            IF ch = channel THEN flag ELSE connection.subscriptions[ch]]]

\* the entry kept on disconnect, with its subscriptions switched off
removeConnection_keep(connections, id) ==
    [c \in DOMAIN connections |->
        IF c = id
        THEN [connections[c] EXCEPT !.subscriptions =
                 [ch \in DOMAIN connections[c].subscriptions |-> FALSE]]
        ELSE connections[c]]

\* activeConnections.delete(socket.id), line 350
removeConnection(connections, id) ==
    [c \in DOMAIN connections \ {id} |-> connections[c]]

\* line 337: userData.name || userData.email throws a TypeError when the
\* payload is null or undefined
authenticateThrows(userData) == userData = "null"

\* a variant that serves only the connections that have authenticated
subscribersOf_authenticated(connections, channel) ==
    {c \in DOMAIN connections :
        /\ channel \in DOMAIN connections[c].subscriptions
        /\ connections[c].subscriptions[channel]
        /\ connections[c].user # "null"}

\* every registered connection, whatever its subscriptions
subscribersOf_everyone(connections, channel) == DOMAIN connections

\* the connections an emit on the channel goes to: those whose
\* subscriptions[channel] is truthy
subscribersOf(connections, channel) ==
    {c \in DOMAIN connections :
        /\ channel \in DOMAIN connections[c].subscriptions
        /\ connections[c].subscriptions[channel]}

\* emitSensorReadings(readings)
emitSensorReadings(connections, readings) ==
    <<[event |-> "sensorReadings",
       to |-> subscribersOf(connections, "sensorReadings"),
       payload |-> readings]>>

\* emitSafetyAlert(alert)
emitSafetyAlert(connections, alert) ==
    <<[event |-> "safetyAlert",
       to |-> subscribersOf(connections, "safetyAlerts"),
       payload |-> <<alert>>]>>

\* emitMultipleSafetyAlerts(alerts)
emitMultipleSafetyAlerts(connections, alerts) ==
    IF Len(alerts) > 0
    THEN <<[event |-> "safetyAlerts",
            to |-> subscribersOf(connections, "safetyAlerts"),
            payload |-> alerts]>>
    ELSE <<>>

----------------------------------------------------------------------------
(* sensorSimulator.js: the interval callback of startSimulator *)

\* the steps of the callback at which an exception can be raised
FaultPoints == {"none", "generate", "update", "check", "emitReadings",
                "emitAlerts", "process"}

\* generateAllReadings(): the anomaly table after the three calls
RECURSIVE anomalyAfter(_, _, _, _)
anomalyAfter(state, now, draws, i) ==
    IF i > Len(SensorTypeOrder) THEN state
    ELSE anomalyAfter(
            [state EXCEPT ![SensorTypeOrder[i]] =
                NextAnomalyState(@, now, draws.delay[i], draws.duration[i])],
            now, draws, i + 1)

\* generateAllReadings(): the readings, in key order, under the
\* configuration types
generateAllReadingsWith(types, state, now, draws) ==
    [i \in 1..Len(SensorTypeOrder) |->
        [type |-> SensorTypeOrder[i]] @@
        readingWith(types[SensorTypeOrder[i]],
                    NextAnomalyState(state[SensorTypeOrder[i]], now,
                                     draws.delay[i], draws.duration[i]),
                    now, draws.s, draws.u[i])]

\* generateAllReadings() with the shipped configuration
generateAllReadings(state, now, draws) ==
    generateAllReadingsWith(SENSOR_TYPES, state, now, draws)

\* the exception escapes the callback: an unhandled rejection ends the process
tryCatch_none(wasCrashed, threw) == wasCrashed \/ threw

\* try { ... } catch (error) { console.error(...) }, lines 148 and 168-170
tryCatch(wasCrashed, threw) == wasCrashed

\* the broadcast is skipped on a tick without alerts
emitAfterCheck_onlyOnAlerts(connections, readings, alerts) ==
    IF Len(alerts) > 0 THEN emitSensorReadings(connections, readings) ELSE <<>>

\* line 160: socketService.emitSensorReadings(readings)
emitAfterCheck(connections, readings, alerts) ==
    emitSensorReadings(connections, readings)

\* lines 159-166, after await checkReadings(readings) returned alerts: what
\* is emitted, the alert log after, and whether the given step threw
finishTick(connections, log, readings, alerts, fault) ==
    IF fault = "emitReadings"
    THEN [emitted |-> <<>>, alertsHistory |-> log, threw |-> TRUE]
    ELSE IF Len(alerts) = 0
    THEN [emitted |-> emitAfterCheck(connections, readings, alerts),
          alertsHistory |-> log, threw |-> FALSE]
    ELSE IF fault = "emitAlerts"
    THEN [emitted |-> emitAfterCheck(connections, readings, alerts),
          alertsHistory |-> log, threw |-> TRUE]
    ELSE IF fault = "process"
    THEN [emitted |-> emitAfterCheck(connections, readings, alerts)
                      \o emitMultipleSafetyAlerts(connections, alerts),
          alertsHistory |-> log, threw |-> TRUE]
    ELSE [emitted |-> emitAfterCheck(connections, readings, alerts)
                      \o emitMultipleSafetyAlerts(connections, alerts),
          alertsHistory |-> processAlerts(log, alerts), threw |-> FALSE]

----------------------------------------------------------------------------
(* The state after the modules are loaded and the server has started *)

NoReading == [value |-> NaN, unit |-> "", timestamp |-> 0 - 1]

NoGenerated == [type |-> "", phase |-> "none", reading |-> NoReading]

NoTick == [tick |-> 0, timer |-> 0, outcome |-> "none", readings |-> <<>>,
           alerts |-> <<>>, sink |-> "none"]

InitOutputs ==
    /\ generated = NoGenerated
    /\ response = NoResponse
    /\ emitted = <<>>
    /\ tickLog = NoTick

NoOutputs ==
    /\ generated' = NoGenerated
    /\ response' = NoResponse
    /\ emitted' = <<>>
    /\ tickLog' = NoTick

\* outside SpecWave no behaviour lasts until the first anomaly (two hours
\* at least): the schedule drawn at module load is the earliest one
InitWaveVars ==
    /\ clock = 0
    /\ focus = "VIBRATION"
    /\ anomalyState = [t \in SensorTypes |-> scheduleNextAnomaly(0, 7200, 120)]

InitEvalVars ==
    /\ safetyThresholds = DEFAULT_THRESHOLDS
    /\ checkRun = NoRun

InitHistVars ==
    /\ latestReadings = <<>>
    /\ readingsHistory = <<>>
    /\ readingsCounter = 0

InitSchedVars ==
    /\ intervals = {}
    /\ started = 0
    /\ ticksFired = 0
    /\ inflight = {}
    /\ caughtErrors = {}
    /\ crashed = FALSE

\* the worker variant before startSimulator: no worker, latestReadings = {}
InitWorkerVars ==
    /\ worker = 0
    /\ tickWorker = 0
    /\ liveWorkers = {}
    /\ spawned = 0
    /\ workerEvents = {}
    /\ mailbox = {}
    /\ simLatestReadings = <<>>
    /\ lastFrontendUpdate = 0

InitRest ==
    /\ alertsHistory = <<>>
    /\ activeConnections = [c \in {} |-> newConnection(c)]
    /\ closed = {}
    /\ InitOutputs
    /\ InitWorkerVars

----------------------------------------------------------------------------
(* SpecWave: generateReading under an advancing clock *)

\* Module load: every type is scheduled (line 64).  A behaviour of SpecWave
\* exercises the generator of one sensor type, focus; the entries of
\* anomalyState are independent of each other.
InitWave ==
    /\ clock = 0
    /\ focus \in SensorTypes
    /\ \E dl \in DelayDraws, du \in DurationDraws :
          anomalyState = [t \in SensorTypes |-> scheduleNextAnomaly(0, dl, du)]
    /\ InitEvalVars /\ InitHistVars /\ InitSchedVars /\ InitRest

\* time passes
Advance(dt) ==
    /\ clock + dt <= MaxClock
    /\ clock' = clock + dt
    /\ NoOutputs
    /\ UNCHANGED <<workerVars, anomalyState, focus, evalVars, histVars, alertsHistory,
                   regVars, schedVars>>

\* what the call did to the anomaly: "idle", "started", "running", "ended"
PhaseOf(before, now) ==
    IF StartIfDue(before, now).active
    THEN IF Ge(now, StartIfDue(before, now).endTime) THEN "ended"
         ELSE IF before.active THEN "running" ELSE "started"
    ELSE "idle"

\* one call generateReading(sensorType)
GenerateReading(sensorType, s, u, delay, duration) ==
    /\ anomalyState' = [anomalyState EXCEPT ![sensorType] =
                            NextAnomalyState(@, clock, delay, duration)]
    /\ generated' = [type |-> sensorType,
                     phase |-> PhaseOf(anomalyState[sensorType], clock),
                     reading |-> readingOf(sensorType, anomalyState'[sensorType],
                                           clock, s, u)]
    /\ response' = NoResponse /\ emitted' = <<>> /\ tickLog' = NoTick
    /\ UNCHANGED <<workerVars, clock, focus, evalVars, histVars, alertsHistory, regVars,
                   schedVars>>

NextWave ==
    \/ \E dt \in {30, 7200} : Advance(dt)
    \/ \E s \in SineSamples, u \in NoiseSamples,
          dl \in DelayDraws, du \in DurationDraws :
            GenerateReading(focus, s, u, dl, du)

SpecWave == InitWave /\ [][NextWave]_vars

\* the clock advances while it can
AdvanceStep == \E dt \in {30, 7200} : Advance(dt)

\* the interval keeps calling generateReading(focus)
GenerateStep ==
    \E s \in SineSamples, u \in NoiseSamples,
       dl \in DelayDraws, du \in DurationDraws :
         GenerateReading(focus, s, u, dl, du)

\* SpecWave with the clock advancing and the ticks firing for ever
SpecWaveLive == SpecWave /\ WF_vars(AdvanceStep) /\ WF_vars(GenerateStep)

----------------------------------------------------------------------------
(* SpecEval: the threshold table and checkReadings called directly *)

\* readings handed to checkReadings: sub-mappings of the three types and an
\* unconfigured one, in key order, with values below, inside and above range
EvalValues ==
    [ VIBRATION |-> {5000, 12000}, TEMPERATURE |-> {10000, 60000, 95000},
      PRESSURE |-> {5000} ]

EvalEntry(t, v, unit) == [type |-> t, value |-> v, unit |-> unit, timestamp |-> 1]

EvalReadings ==
    { <<EvalEntry("VIBRATION", a, "mm/s"), EvalEntry("TEMPERATURE", b, u)>> :
        a \in EvalValues.VIBRATION, b \in EvalValues.TEMPERATURE, u \in {"C", ""} }
    \cup { <<EvalEntry("TEMPERATURE", b, "C"), EvalEntry("PRESSURE", c, "bar")>> :
        b \in EvalValues.TEMPERATURE, c \in EvalValues.PRESSURE }
    \cup { <<EvalEntry("TEMPERATURE", b, "C")>> : b \in EvalValues.TEMPERATURE }

\* threshold updates that interleave with the calls: max of TEMPERATURE
EvalBodyValues == {90000, NotANumberText}

InitEval ==
    /\ InitWaveVars /\ InitEvalVars /\ InitHistVars /\ InitSchedVars /\ InitRest

\* PUT /api/safety/thresholds/:sensorType with body {min, max}
UpdateThreshold(sensorType, bodyMin, bodyMax) ==
    /\ ~crashed
    /\ safetyThresholds' = putThreshold(safetyThresholds, sensorType,
                                        bodyMin, bodyMax).table
    /\ response' = [op |-> "updateThreshold",
                    status |-> putThreshold(safetyThresholds, sensorType,
                                            bodyMin, bodyMax).status,
                    data |-> putThreshold(safetyThresholds, sensorType,
                                          bodyMin, bodyMax).data]
    /\ generated' = NoGenerated /\ emitted' = <<>> /\ tickLog' = NoTick
    /\ UNCHANGED <<workerVars, waveVars, checkRun, histVars, alertsHistory, regVars,
                   schedVars>>

\* GET /api/safety/thresholds?sensorType=...
GetThresholds(sensorType) ==
    /\ ~crashed
    /\ response' = [op |-> "getThresholds", status |-> 200,
                    data |-> getThresholds(safetyThresholds, sensorType).value]
    /\ generated' = NoGenerated /\ emitted' = <<>> /\ tickLog' = NoTick
    /\ UNCHANGED <<workerVars, waveVars, evalVars, histVars, alertsHistory, regVars,
                   schedVars>>

\* a caller starts checkReadings(readings); no other call is in progress
CheckReadingsCall(readings) ==
    /\ checkRun = NoRun \/ checkRun.done
    /\ checkRun' = checkReadingsStart(safetyThresholds, clock, readings)
    /\ NoOutputs
    /\ UNCHANGED <<workerVars, waveVars, safetyThresholds, histVars, alertsHistory,
                   regVars, schedVars>>

\* the sink write awaited by the call settles, resolved (ok) or rejected
SinkSettles(ok) ==
    /\ checkRun # NoRun /\ ~checkRun.done
    /\ checkRun' = checkReadingsResume(safetyThresholds, clock, checkRun)
    /\ NoOutputs
    /\ UNCHANGED <<workerVars, waveVars, safetyThresholds, histVars, alertsHistory,
                   regVars, schedVars>>

NextEval ==
    \/ \E mx \in EvalBodyValues : UpdateThreshold("TEMPERATURE", Undefined, mx)
    \/ \E r \in EvalReadings : CheckReadingsCall(r)
    \/ \E ok \in BOOLEAN : SinkSettles(ok)

SpecEval == InitEval /\ [][NextEval]_vars

----------------------------------------------------------------------------
(* SpecThresholds: the control plane of the threshold table *)

\* sensor types named in requests: a known one, an unknown one, and a
\* property name inherited from Object.prototype
RequestTypes == {"TEMPERATURE", "PRESSURE", "toString"}

\* min / max of a request body: absent, a number, a text that is no number
BodyValues == {Undefined, 90000, NotANumberText}

NextThresholds ==
    \/ \E t \in RequestTypes, mn \in BodyValues, mx \in BodyValues :
          UpdateThreshold(t, mn, mx)
    \/ \E t \in RequestTypes : GetThresholds(t)

SpecThresholds == InitEval /\ [][NextThresholds]_vars

----------------------------------------------------------------------------
(* SpecHistory: the history buffer filled call by call, and queried *)

\* the readings of call number n: one reading per sensor type, stamped n
ReadingsOfCall(n) ==
    [i \in 1..Len(SensorTypeOrder) |->
        [type |-> SensorTypeOrder[i],
         value |-> SENSOR_TYPES[SensorTypeOrder[i]].baseValue,
         unit |-> SENSOR_TYPES[SensorTypeOrder[i]].unit,
         timestamp |-> n]]

\* the limit query parameter: absent, large, zero, negative, no number
LimitValues == {Undefined, 10000, 0, 0 - 1, NotANumberText}

\* the sensorType query parameter: absent, a stored type, a type no entry
\* holds, a key every object inherits
QueryTypes == {"", "TEMPERATURE", "PRESSURE", "toString"}

\* sensorController.updateLatestReadings(readings)
UpdateLatestReadings(readings, now) ==
    /\ readingsCounter < MaxCalls
    /\ latestReadings' = updateLatestReadings(latestReadings, readingsHistory,
                            readingsCounter, readings, now).latestReadings
    /\ readingsHistory' = updateLatestReadings(latestReadings, readingsHistory,
                            readingsCounter, readings, now).readingsHistory
    /\ readingsCounter' = updateLatestReadings(latestReadings, readingsHistory,
                            readingsCounter, readings, now).readingsCounter
    /\ NoOutputs
    /\ UNCHANGED <<workerVars, waveVars, evalVars, alertsHistory, regVars, schedVars>>

\* GET /api/sensors/history?sensorType=...&limit=...
GetReadingsHistory(sensorType, limit) ==
    /\ response' = [op |-> "getReadingsHistory", status |-> 200,
                    data |-> getReadingsHistory(readingsHistory, sensorType, limit),
                    sensorType |-> sensorType, limit |-> limit]
    /\ generated' = NoGenerated /\ emitted' = <<>> /\ tickLog' = NoTick
    /\ UNCHANGED <<workerVars, waveVars, evalVars, histVars, alertsHistory, regVars,
                   schedVars>>

NextHistory ==
    \/ UpdateLatestReadings(ReadingsOfCall(readingsCounter + 1),
                            readingsCounter + 1)
    \/ \E t \in QueryTypes, l \in LimitValues : GetReadingsHistory(t, l)

SpecHistory == InitEval /\ [][NextHistory]_vars

----------------------------------------------------------------------------
(* SpecAlerts: the alert log filled alert by alert *)

\* the alert raised at second n, about a vibration reading
AlertOfCall(n) ==
    [type |-> "VIBRATION", value |-> 12000, unit |-> "mm/s",
     threshold |-> 10000, timestamp |-> n,
     message |-> <<"VIBRATION", 12000, "mm/s">>]

\* exports.processAlert(alert), the alert being raised at the next second
ProcessAlert(alert) ==
    /\ alert.timestamp <= MaxAlerts
    /\ clock' = alert.timestamp
    /\ alertsHistory' = storeAlert(alertsHistory, alert)
    /\ NoOutputs
    /\ UNCHANGED <<workerVars, anomalyState, focus, evalVars, histVars, regVars, schedVars>>

\* exports.processAlerts(alerts), the alerts being raised one second apart
ProcessAlerts(alerts) ==
    /\ clock + Len(alerts) <= MaxAlerts
    /\ clock' = clock + Len(alerts)
    /\ alertsHistory' = processAlerts(alertsHistory, alerts)
    /\ NoOutputs
    /\ UNCHANGED <<workerVars, anomalyState, focus, evalVars, histVars, regVars, schedVars>>

NextAlerts ==
    \/ ProcessAlert(AlertOfCall(clock + 1))
    \/ \E n \in 0..3 :
          ProcessAlerts([i \in 1..n |-> AlertOfCall(clock + i)])

SpecAlerts == InitEval /\ [][NextAlerts]_vars

----------------------------------------------------------------------------
(* SpecRegistry: the connection registry and the emit functions *)

ConnIds == {"c1", "c2"}

Channels == {"sensorReadings", "safetyAlerts", "maintenance"}

\* the payload of authenticate; "null" is a null or absent payload
UserData == {"alice", "bob", "null"}

\* io.on('connection'): a socket with a fresh id connects
Connect(id) ==
    /\ ~crashed
    /\ id \notin DOMAIN activeConnections
    /\ id \notin closed
    /\ activeConnections' =
          [c \in DOMAIN activeConnections \cup {id} |->
              IF c = id THEN newConnection(id) ELSE activeConnections[c]]
    /\ NoOutputs
    /\ UNCHANGED <<workerVars, waveVars, evalVars, histVars, alertsHistory, closed,
                   schedVars>>

\* socket.on('subscribe')
Subscribe(id, channel) ==
    /\ ~crashed
    /\ activeConnections' =
          IF id \in DOMAIN activeConnections
          THEN [activeConnections EXCEPT ![id] = setSubscription(@, channel, TRUE)]
          ELSE activeConnections
    /\ NoOutputs
    /\ UNCHANGED <<workerVars, waveVars, evalVars, histVars, alertsHistory, closed,
                   schedVars>>

\* socket.on('unsubscribe')
Unsubscribe(id, channel) ==
    /\ ~crashed
    /\ activeConnections' =
          IF id \in DOMAIN activeConnections
          THEN [activeConnections EXCEPT ![id] = setSubscription(@, channel, FALSE)]
          ELSE activeConnections
    /\ NoOutputs
    /\ UNCHANGED <<workerVars, waveVars, evalVars, histVars, alertsHistory, closed,
                   schedVars>>

\* socket.on('authenticate'): the log line of 337 reads the payload first;
\* when that throws, the handler ends there, and the exception leaves the
\* listener: it ends the process unless the transport library contains it
Authenticate(id, userData) ==
    /\ ~crashed
    /\ activeConnections' =
          IF id \in DOMAIN activeConnections /\ ~authenticateThrows(userData)
          THEN [activeConnections EXCEPT ![id].user = userData]
          ELSE activeConnections
    /\ emitted' = IF authenticateThrows(userData) THEN <<>>
                  ELSE <<[event |-> "authenticated", to |-> {id},
                          payload |-> <<TRUE>>]>>
    /\ crashed' \in (IF authenticateThrows(userData) THEN {crashed, TRUE}
                      ELSE {crashed})
    /\ generated' = NoGenerated /\ response' = NoResponse /\ tickLog' = NoTick
    /\ UNCHANGED <<workerVars, waveVars, evalVars, histVars, alertsHistory, closed,
                   intervals, started, ticksFired, inflight, caughtErrors>>

\* socket.on('disconnect'); the socket's id is not used again
Disconnect(id) ==
    /\ ~crashed
    /\ id \in DOMAIN activeConnections \/ id \in closed
    /\ activeConnections' = removeConnection(activeConnections, id)
    /\ closed' = closed \cup {id}
    /\ NoOutputs
    /\ UNCHANGED <<workerVars, waveVars, evalVars, histVars, alertsHistory, schedVars>>

\* a caller emits through one of the three exported functions
EmitCall(emissions) ==
    /\ ~crashed
    /\ emitted' = emissions
    /\ generated' = NoGenerated /\ response' = NoResponse /\ tickLog' = NoTick
    /\ UNCHANGED <<workerVars, waveVars, evalVars, histVars, alertsHistory, regVars,
                   schedVars>>

NextRegistry ==
    \/ \E c \in ConnIds : Connect(c)
    \/ \E c \in ConnIds, ch \in Channels : Subscribe(c, ch)
    \/ \E c \in ConnIds, ch \in Channels : Unsubscribe(c, ch)
    \/ \E c \in ConnIds, u \in UserData : Authenticate(c, u)
    \/ \E c \in ConnIds : Disconnect(c)
    \/ EmitCall(emitSensorReadings(activeConnections, ReadingsOfCall(1)))
    \/ EmitCall(emitSafetyAlert(activeConnections, AlertOfCall(1)))
    \/ \E n \in 0..1 :
          EmitCall(emitMultipleSafetyAlerts(activeConnections,
                       [i \in 1..n |-> AlertOfCall(i)]))

SpecRegistry == InitEval /\ [][NextRegistry]_vars

----------------------------------------------------------------------------
(* Spec: the running server (the interval callback of startSimulator with
   the sink, threshold updates and socket clients around it) *)

\* the Math.random() and Math.sin draws of one generateAllReadings call:
\* every reading at the top, or at the bottom, of its normal band
TickDraws ==
    { [s |-> 1000, u |-> <<999, 999, 999>>,
       delay |-> <<7200, 7200, 7200>>, duration |-> <<120, 120, 120>>],
      [s |-> 0 - 1000, u |-> <<0 - 1000, 0 - 1000, 0 - 1000>>,
       delay |-> <<7290, 7290, 7290>>, duration |-> <<210, 210, 210>>] }

\* startSimulator(interval): setInterval; nothing keeps a second call from
\* setting a second timer
StartSimulator ==
    /\ ~crashed
    /\ started < MaxStarts
    /\ started' = started + 1
    /\ intervals' = intervals \cup {started + 1}
    /\ NoOutputs
    /\ UNCHANGED <<workerVars, waveVars, evalVars, histVars, alertsHistory, regVars,
                   ticksFired, inflight, caughtErrors>>
    /\ UNCHANGED crashed

\* the timer left running by stop()
clearInterval_noop(timers, iv) == timers

\* clearInterval(simulatorInterval): a timer already cleared is left alone
clearInterval(timers, iv) == timers \ {iv}

\* the stop function of the handle returned by call number iv of
\* startSimulator: clearInterval(simulatorInterval)
Stop(iv) ==
    /\ ~crashed
    /\ iv \in 1..started
    /\ intervals' = clearInterval(intervals, iv)
    /\ NoOutputs
    /\ UNCHANGED <<workerVars, waveVars, evalVars, histVars, alertsHistory, regVars,
                   started, ticksFired, inflight, caughtErrors, crashed>>

\* the entry of tickLog: the callback's number, the timer that called it,
\* what became of it in this step, its readings and alerts, and how the sink
\* write it was waiting for settled
TickLogOf(tick, timer, outcome, readings, alerts, sink) ==
    [tick |-> tick, timer |-> timer, outcome |-> outcome,
     readings |-> readings, alerts |-> alerts, sink |-> sink]

\* the timer iv is set and the event loop is alive: its callback is called
\* (MaxTicks bounds the number of calls)
TickCanFire(iv) == ~crashed /\ iv \in intervals /\ ticksFired < MaxTicks

\* The timer iv fires: the callback runs from line 148 up to its first
\* suspension (await checkReadings waiting for the sink), to its end, or to
\* the exception raised at step fault.
TickFireWith(types, iv, draws, fault) ==
    LET now      == clock + 1
        tick     == ticksFired + 1
        readings == generateAllReadingsWith(types, anomalyState, now, draws)
        upd      == updateLatestReadings(latestReadings, readingsHistory,
                                         readingsCounter, readings, now)
        run      == checkReadingsStart(safetyThresholds, now, readings)
        fin      == finishTick(activeConnections, alertsHistory, readings,
                               run.alerts, fault)
        early    == fault \in {"generate", "update", "check"}
        threw    == early \/ (run.done /\ fin.threw)
    IN  /\ TickCanFire(iv)
        /\ fault # "none" => Cardinality(caughtErrors) < MaxFaults
        /\ clock' = now
        /\ ticksFired' = tick
        /\ anomalyState' = IF fault = "generate" THEN anomalyState
                           ELSE anomalyAfter(anomalyState, now, draws, 1)
        /\ latestReadings' = IF fault \in {"generate", "update"}
                             THEN latestReadings ELSE upd.latestReadings
        /\ readingsHistory' = IF fault \in {"generate", "update"}
                              THEN readingsHistory ELSE upd.readingsHistory
        /\ readingsCounter' = IF fault \in {"generate", "update"}
                              THEN readingsCounter ELSE upd.readingsCounter
        /\ inflight' = IF ~early /\ ~run.done
                       THEN inflight \cup {[tick |-> tick, timer |-> iv,
                                              run |-> run]}
                       ELSE inflight
        /\ emitted' = IF ~early /\ run.done THEN fin.emitted ELSE <<>>
        /\ alertsHistory' = IF ~early /\ run.done THEN fin.alertsHistory
                            ELSE alertsHistory
        /\ caughtErrors' = IF threw THEN caughtErrors \cup {tick}
                           ELSE caughtErrors
        /\ crashed' = tryCatch(crashed, threw)
        /\ tickLog' = IF threw
                      THEN TickLogOf(tick, iv, "caught", <<>>, <<>>, "none")
                      ELSE IF run.done
                      THEN TickLogOf(tick, iv, "done", readings, run.alerts,
                                     "none")
                      ELSE TickLogOf(tick, iv, "suspended", readings,
                                     run.alerts, "none")
        /\ generated' = NoGenerated /\ response' = NoResponse
        /\ UNCHANGED <<workerVars, focus, evalVars, regVars, intervals, started>>

\* the timer iv fires, the configuration being the shipped one
TickFire(iv, draws, fault) == TickFireWith(SENSOR_TYPES, iv, draws, fault)

\* how the promise of writePoint settled
SettledAs(ok) == IF ok THEN "resolved" ELSE "rejected"

\* the rejection leaves checkReadings and reaches the callback's catch
sinkCatch_rethrow(ok) == ~ok

\* try { await writePoint(...) } catch (err) { console.error(...) }, lines
\* 164-175 of checkReadings: whether the rejection leaves checkReadings
sinkCatch(ok) == FALSE

\* The sink write awaited by the suspended callback t settles (resolved or
\* rejected, the rejection being swallowed by checkReadings): the callback
\* goes on to its next suspension, to its end, or to the exception raised at
\* step fault.
SinkSettle(t, ok, fault) ==
    LET run   == checkReadingsResume(safetyThresholds, clock, t.run)
        fin   == finishTick(activeConnections, alertsHistory, run.readings,
                            run.alerts, fault)
        threw == sinkCatch(ok) \/ (run.done /\ fin.threw)
    IN  /\ ~crashed
        /\ t \in inflight
        /\ fault # "none" => Cardinality(caughtErrors) < MaxFaults
        /\ inflight' = IF run.done \/ threw THEN inflight \ {t}
                       ELSE (inflight \ {t}) \cup {[t EXCEPT !.run = run]}
        /\ emitted' = IF run.done /\ ~sinkCatch(ok) THEN fin.emitted ELSE <<>>
        /\ alertsHistory' = IF run.done /\ ~sinkCatch(ok) THEN fin.alertsHistory
                            ELSE alertsHistory
        /\ caughtErrors' = IF threw THEN caughtErrors \cup {t.tick}
                           ELSE caughtErrors
        /\ crashed' = tryCatch(crashed, threw)
        /\ tickLog' = IF threw
                      THEN TickLogOf(t.tick, t.timer, "caught", <<>>, <<>>,
                                     SettledAs(ok))
                      ELSE IF run.done
                      THEN TickLogOf(t.tick, t.timer, "done", run.readings,
                                     run.alerts, SettledAs(ok))
                      ELSE TickLogOf(t.tick, t.timer, "suspended",
                                     run.readings, run.alerts, SettledAs(ok))
        /\ generated' = NoGenerated /\ response' = NoResponse
        /\ UNCHANGED <<workerVars, waveVars, evalVars, histVars, regVars, intervals,
                       started, ticksFired>>

\* the steps after await checkReadings at which an exception can be raised
SettleFaults == {"none", "emitReadings", "emitAlerts", "process"}

Init == InitEval

\* server.js, lines 45-49: the one startSimulator call of the server
Bootstrap == started = 0 /\ StartSimulator

Next ==
    \/ Bootstrap
    \/ \E iv \in 1..started : Stop(iv)
    \/ \E iv \in intervals, d \in TickDraws, f \in FaultPoints : TickFire(iv, d, f)
    \/ \E t \in inflight, ok \in BOOLEAN, f \in SettleFaults : SinkSettle(t, ok, f)
    \/ UpdateThreshold("VIBRATION", Undefined, 6000)
    \/ Connect("c1")
    \/ Unsubscribe("c1", "safetyAlerts")
    \/ Disconnect("c1")

Spec == Init /\ [][Next]_vars

----------------------------------------------------------------------------
(* SpecLifecycle: startSimulator and stop called any number of times *)

NextLifecycle ==
    \/ StartSimulator
    \/ \E iv \in 1..started : Stop(iv)
    \/ \E iv \in intervals, d \in TickDraws : TickFire(iv, d, "none")
    \/ Connect("c1")

SpecLifecycle == Init /\ [][NextLifecycle]_vars

----------------------------------------------------------------------------
(* SpecForced: the server with TEMPERATURE forced above its safe ceiling *)

\* SENSOR_TYPES with the base value of TEMPERATURE set to 82 (safeMax and
\* the threshold max stay 80)
ForcedTypes == [SENSOR_TYPES EXCEPT !.TEMPERATURE.baseValue = 82000]

\* the draws of a tick: the daily sine at its top or bottom, the noise of
\* every reading at its top or bottom
ForcedDraws ==
    { [s |-> s, u |-> <<u, u, u>>,
       delay |-> <<7200, 7200, 7200>>, duration |-> <<120, 120, 120>>] :
      s \in SineSamples, u \in NoiseSamples }

NextForced ==
    \/ Bootstrap
    \/ Connect("c1")
    \/ \E iv \in intervals, d \in ForcedDraws :
          TickFireWith(ForcedTypes, iv, d, "none")
    \/ \E t \in inflight, ok \in BOOLEAN : SinkSettle(t, ok, "none")

SpecForced == Init /\ [][NextForced]_vars

----------------------------------------------------------------------------
(* SpecWorker: the worker-thread variant of the simulator (part_007, lines
   1-261): generation runs in a worker, the interval callback publishes the
   readings the worker sent last *)

\* the configuration of the variant, lines 9-34
WorkerSensorTypes ==
    [ VIBRATION   |-> [min |-> 0, max |-> 15000, safeMax |-> 10000,
                       baseValue |-> 5000, normalVariation |-> 1000, unit |-> "mm/s"],
      TEMPERATURE |-> [min |-> 20000, max |-> 100000, safeMax |-> 80000,
                       baseValue |-> 55000, normalVariation |-> 5000, unit |-> "C"],
      CURRENT     |-> [min |-> 0, max |-> 50000, safeMax |-> 40000,
                       baseValue |-> 28000, normalVariation |-> 3000, unit |-> "A"] ]

REDUCE_FREQUENCY == TRUE

\* line 44, in seconds
UPDATE_INTERVAL == 3

\* the number of worker threads created in a behaviour
MaxWorkers == 3

WorkerEvent(type, id) == [type |-> type, worker |-> id]

\* worker.terminate(): a running worker stops and its 'exit' event follows,
\* with exit code 1; a worker that has stopped is left alone
terminate(live, events, id) ==
    [liveWorkers |-> live \ {id},
     workerEvents |-> IF id \in live THEN events \cup {WorkerEvent("exit", id)}
                      ELSE events]

\* createWorker(), lines 160-198: the module variable worker, the running
\* workers, their number and the queued events after the call
createWorker(current, live, count, events) ==
    LET old == IF current # 0 THEN terminate(live, events, current)
               ELSE [liveWorkers |-> live, workerEvents |-> events]
    IN  [worker |-> count + 1,
         liveWorkers |-> old.liveWorkers \cup {count + 1},
         spawned |-> count + 1,
         workerEvents |-> old.workerEvents]

\* the commands a stopped worker had not answered are lost with it
deliverable(commands, live) == {m \in commands : m.to \in live}

\* startSimulator(socketService, interval), lines 205-261, up to the return
WorkerStart ==
    LET made == createWorker(worker, liveWorkers, spawned, workerEvents)
    IN  /\ ~crashed
        /\ started = 0
        /\ spawned < MaxWorkers
        /\ worker' = made.worker
        /\ tickWorker' = made.worker
        /\ liveWorkers' = made.liveWorkers
        /\ spawned' = made.spawned
        /\ workerEvents' = made.workerEvents
        /\ mailbox' = deliverable(mailbox, made.liveWorkers)
        /\ lastFrontendUpdate' = 0 - UPDATE_INTERVAL
        /\ started' = started + 1
        /\ intervals' = intervals \cup {started + 1}
        /\ NoOutputs
        /\ UNCHANGED <<waveVars, evalVars, histVars, alertsHistory, regVars,
                       ticksFired, inflight, caughtErrors, crashed,
                       simLatestReadings>>

\* the interval callback, lines 218-250: the command goes to the worker the
\* enclosing startSimulator call created (postMessage to a stopped worker
\* does nothing), and what is published is the simulator's latestReadings
WorkerTick(iv) ==
    LET now   == clock + 1
        tick  == ticksFired + 1
        skip  == REDUCE_FREQUENCY /\ now - lastFrontendUpdate < UPDATE_INTERVAL
        upd   == updateLatestReadings(latestReadings, readingsHistory,
                                      readingsCounter, simLatestReadings, now)
        run   == checkReadingsStart(safetyThresholds, now, simLatestReadings)
        fin   == finishTick(activeConnections, alertsHistory,
                            simLatestReadings, run.alerts, "none")
    IN  /\ TickCanFire(iv)
        /\ clock' = now
        /\ ticksFired' = tick
        /\ mailbox' = IF tickWorker \in liveWorkers
                      THEN mailbox \cup {[to |-> tickWorker, tick |-> tick]}
                      ELSE mailbox
        /\ latestReadings' = upd.latestReadings
        /\ readingsHistory' = upd.readingsHistory
        /\ readingsCounter' = upd.readingsCounter
        /\ lastFrontendUpdate' = IF skip THEN lastFrontendUpdate ELSE now
        /\ inflight' = IF ~skip /\ ~run.done
                       THEN inflight \cup {[tick |-> tick, timer |-> iv,
                                              run |-> run]}
                       ELSE inflight
        /\ emitted' = IF ~skip /\ run.done THEN fin.emitted ELSE <<>>
        /\ alertsHistory' = IF ~skip /\ run.done THEN fin.alertsHistory
                            ELSE alertsHistory
        /\ tickLog' = IF skip
                      THEN TickLogOf(tick, iv, "skipped", simLatestReadings,
                                     <<>>, "none")
                      ELSE IF run.done
                      THEN TickLogOf(tick, iv, "done", simLatestReadings,
                                     run.alerts, "none")
                      ELSE TickLogOf(tick, iv, "suspended", simLatestReadings,
                                     run.alerts, "none")
        /\ generated' = NoGenerated /\ response' = NoResponse
        /\ UNCHANGED <<anomalyState, focus, evalVars, regVars, intervals,
                       started, caughtErrors, crashed, worker, tickWorker,
                       liveWorkers, spawned, workerEvents, simLatestReadings>>

\* a worker answers a 'generate' command (lines 142-147) and the main thread
\* stores the readings (lines 174-177); the worker's anomalies are scheduled
\* at least two hours after its start
WorkerReplies(m, draws) ==
    /\ ~crashed
    /\ m \in mailbox
    /\ m.to \in liveWorkers
    /\ mailbox' = mailbox \ {m}
    /\ simLatestReadings' =
          generateAllReadingsWith(WorkerSensorTypes,
              [t \in SensorTypes |-> scheduleNextAnomaly(0, 7200, 120)],
              clock, draws)
    /\ NoOutputs
    /\ UNCHANGED <<waveVars, evalVars, histVars, alertsHistory, regVars,
                   schedVars, worker, tickWorker, liveWorkers, spawned,
                   workerEvents, lastFrontendUpdate>>

\* a running worker stops by itself: with an uncaught error ('error', then
\* 'exit' with code 1) or by exiting with a non-zero code ('exit')
WorkerFails(id, how) ==
    /\ ~crashed
    /\ id \in liveWorkers
    /\ liveWorkers' = liveWorkers \ {id}
    /\ workerEvents' = workerEvents \cup
          (IF how = "error"
           THEN {WorkerEvent("error", id), WorkerEvent("exit", id)}
           ELSE {WorkerEvent("exit", id)})
    /\ mailbox' = deliverable(mailbox, liveWorkers \ {id})
    /\ NoOutputs
    /\ UNCHANGED <<waveVars, evalVars, histVars, alertsHistory, regVars,
                   schedVars, worker, tickWorker, spawned, simLatestReadings,
                   lastFrontendUpdate>>

\* worker.on('error') and worker.on('exit') with a non-zero code, lines
\* 184-195: both recreate the worker; a worker's 'error' precedes its 'exit'
WorkerEventHandled(e) ==
    LET made == createWorker(worker, liveWorkers, spawned, workerEvents \ {e})
    IN  /\ ~crashed
        /\ e \in workerEvents
        /\ e.type = "exit" => WorkerEvent("error", e.worker) \notin workerEvents
        /\ spawned < MaxWorkers
        /\ worker' = made.worker
        /\ liveWorkers' = made.liveWorkers
        /\ spawned' = made.spawned
        /\ workerEvents' = made.workerEvents
        /\ mailbox' = deliverable(mailbox, made.liveWorkers)
        /\ NoOutputs
        /\ UNCHANGED <<waveVars, evalVars, histVars, alertsHistory, regVars,
                       schedVars, tickWorker, simLatestReadings,
                       lastFrontendUpdate>>

\* stop(), lines 253-256: clearInterval, then terminate of the const worker
WorkerStop(iv) ==
    LET ended == terminate(liveWorkers, workerEvents, tickWorker)
    IN  /\ ~crashed
        /\ iv \in 1..started
        /\ intervals' = clearInterval(intervals, iv)
        /\ liveWorkers' = ended.liveWorkers
        /\ workerEvents' = ended.workerEvents
        /\ mailbox' = deliverable(mailbox, ended.liveWorkers)
        /\ NoOutputs
        /\ UNCHANGED <<waveVars, evalVars, histVars, alertsHistory, regVars,
                       started, ticksFired, inflight, caughtErrors, crashed,
                       worker, tickWorker, spawned, simLatestReadings,
                       lastFrontendUpdate>>

NextWorker ==
    \/ WorkerStart
    \/ \E iv \in intervals : WorkerTick(iv)
    \/ \E m \in mailbox, d \in TickDraws : WorkerReplies(m, d)
    \/ \E id \in liveWorkers, how \in {"error", "exit"} : WorkerFails(id, how)
    \/ \E e \in workerEvents : WorkerEventHandled(e)
    \/ \E iv \in 1..started : WorkerStop(iv)
    \/ Connect("c1")

SpecWorker == Init /\ [][NextWorker]_vars

----------------------------------------------------------------------------
(* Properties *)

\* C1  Clamping: every reading returned by generateReading(type) has
\* config.min <= value <= config.max of its type, whatever the call did to
\* the anomaly (nothing, started it, ran inside it, ended it).
C1_Clamping ==
    generated.phase # "none" =>
        /\ Le(SENSOR_TYPES[generated.type].min, generated.reading.value)
        /\ Le(generated.reading.value, SENSOR_TYPES[generated.type].max)

\* C1 witness: a reading generated inside a running anomaly, above safeMax
C1_Witness ==
    /\ generated.phase = "running"
    /\ Gt(generated.reading.value, SENSOR_TYPES[generated.type].safeMax)

\* the alerts of a finished call that are about entry i of its readings
AlertsAbout(run, i) ==
    {k \in 1..Len(run.alerts) : run.alerts[k].type = run.readings[i].type}

\* C2  checkReadings returns an alert for a (type, reading) pair iff the
\* table has an entry for the type and value < entry.min or value > entry.max;
\* at most one alert per reading, none for an unconfigured type, and the
\* alert's threshold is entry.max.
C2_AlertIffOutsideRange ==
    checkRun.done =>
        \A i \in 1..Len(checkRun.readings) :
            /\ Cardinality(AlertsAbout(checkRun, i)) <= 1
            /\ (AlertsAbout(checkRun, i) # {}) <=>
                  /\ checkRun.judged[i].kind = "own"
                  /\ \/ Lt(checkRun.readings[i].value, checkRun.judged[i].entry.min)
                     \/ Gt(checkRun.readings[i].value, checkRun.judged[i].entry.max)
            /\ \A k \in AlertsAbout(checkRun, i) :
                  checkRun.alerts[k].threshold = checkRun.judged[i].entry.max

C4_BroadcastNotBehindSink ==
    tickLog.outcome = "suspended" =>
        \E i \in 1..Len(emitted) :
            /\ emitted[i].event = "sensorReadings"
            /\ emitted[i].payload = tickLog.readings

\* C5  Fault isolation: a step in which a callback throws leaves the process
\* alive and the timers set, and as long as a timer is set and the process is
\* alive the next tick can fire.
C5_FaultIsolation ==
    /\ [][tickLog'.outcome = "caught" =>
            (~crashed' /\ intervals' = intervals)]_vars
    /\ [](\A iv \in intervals : ticksFired < MaxTicks => TickCanFire(iv))

\* C5 witness: a tick has run its full cycle after an earlier tick's
\* callback threw
C5_Witness ==
    /\ tickLog.outcome = "done"
    /\ \E k \in caughtErrors : k < tickLog.tick
    /\ Len(emitted) >= 1

\* the connections whose flag for the subscription is true
FlagTrue(connections, subscription) ==
    {c \in DOMAIN connections :
        connections[c].subscriptions[subscription] = TRUE}

\* C6  Broadcast scoping: a connection starts with both flags true, and
\* every emission of 'sensorReadings' (of 'safetyAlert', 'safetyAlerts') goes
\* to exactly the registered connections whose sensorReadings (safetyAlerts)
\* flag is true when it is made.
C6_BroadcastScoping ==
    [][/\ \A c \in DOMAIN activeConnections' \ DOMAIN activeConnections :
             /\ activeConnections'[c].subscriptions.sensorReadings = TRUE
             /\ activeConnections'[c].subscriptions.safetyAlerts = TRUE
       /\ \A i \in 1..Len(emitted') :
             /\ emitted'[i].event = "sensorReadings" =>
                   emitted'[i].to = FlagTrue(activeConnections', "sensorReadings")
             /\ emitted'[i].event \in {"safetyAlert", "safetyAlerts"} =>
                   emitted'[i].to = FlagTrue(activeConnections', "safetyAlerts")
      ]_vars

\* C6 witness: c1 has unsubscribed from safetyAlerts, c2 has not, and a
\* safetyAlerts payload went to c2 alone
C6_Witness ==
    /\ DOMAIN activeConnections = {"c1", "c2"}
    /\ ~activeConnections["c1"].subscriptions.safetyAlerts
    /\ Len(emitted) = 1
    /\ emitted[1].event = "safetyAlerts"
    /\ emitted[1].to = {"c2"}

\* C7  History query cap: whatever limit the client supplies, the response
\* of getReadingsHistory holds at most 100 entries.
C7_HistoryQueryCap ==
    response.op = "getReadingsHistory" => Len(response.data) <= MAX_LIMIT

\* the length of the history after n stored appends
HistoryLenAfter(n) ==
    IF n <= MAX_HISTORY_SIZE + HISTORY_MARGIN THEN n
    ELSE MAX_HISTORY_SIZE
         + ((n - (MAX_HISTORY_SIZE + HISTORY_MARGIN + 1)) % (HISTORY_MARGIN + 1))

\* C8  History eviction: the history never holds more than
\* MAX_HISTORY_SIZE + 50 entries; the stored append that would make it one
\* longer leaves exactly MAX_HISTORY_SIZE; the entries kept are the most
\* recently stored ones, newest first, the one just stored at index 0.
\* (Call n carries the timestamp n, and every second call is stored.)
C8_HistoryEviction ==
    /\ Len(readingsHistory) <= MAX_HISTORY_SIZE + HISTORY_MARGIN
    /\ Len(readingsHistory) =
          HistoryLenAfter(readingsCounter \div HISTORY_SAMPLING_RATE)
    /\ \A i \in 1..Len(readingsHistory) :
          readingsHistory[i].timestamp =
              HISTORY_SAMPLING_RATE
                * ((readingsCounter \div HISTORY_SAMPLING_RATE) - (i - 1))

\* C8 witness: the 351st stored append has just cut the history to 300
C8_Witness ==
    /\ readingsCounter =
          HISTORY_SAMPLING_RATE * (MAX_HISTORY_SIZE + HISTORY_MARGIN + 1)
    /\ Len(readingsHistory) = MAX_HISTORY_SIZE
    /\ readingsHistory[1].timestamp = readingsCounter

\* C9  Alert log bound: the log holds at most 100 alerts, the alert stored
\* last is at the front, the others follow from newer to older, and the
\* alerts missing from a full log are the ones stored earliest.  (The alert
\* raised at second n carries the timestamp n.)
C9_AlertLogBound ==
    /\ Len(alertsHistory) <= MAX_ALERTS_HISTORY
    /\ Len(alertsHistory) =
          (IF clock <= MAX_ALERTS_HISTORY THEN clock ELSE MAX_ALERTS_HISTORY)
    /\ \A i \in 1..Len(alertsHistory) :
          alertsHistory[i].timestamp = clock - (i - 1)

\* C9 witness: more than 100 alerts were stored; the log is full and the
\* first alerts are gone
C9_Witness ==
    /\ clock > MAX_ALERTS_HISTORY + 1
    /\ Len(alertsHistory) = MAX_ALERTS_HISTORY
    /\ alertsHistory[1].timestamp = clock
    /\ alertsHistory[MAX_ALERTS_HISTORY].timestamp > 2

\* C10  Threshold round-trip: after updateThreshold(type, patch) succeeds for
\* a known type, getThresholds(type) returns the supplied min and/or max, the
\* fields not supplied keep their previous values, and the entries of all
\* other sensor types are unchanged.
C10_ThresholdRoundTrip ==
    [][\A t \in SensorTypes, mn \in BodyValues, mx \in BodyValues :
         (UpdateThreshold(t, mn, mx) /\ response'.status = 200) =>
            /\ getThresholds(safetyThresholds', t).found
            /\ getThresholds(safetyThresholds', t).value.min =
                  (IF mn = Undefined THEN safetyThresholds[t].min
                   ELSE thresholdsOfBody(mn, mx).min)
            /\ getThresholds(safetyThresholds', t).value.max =
                  (IF mx = Undefined THEN safetyThresholds[t].max
                   ELSE thresholdsOfBody(mn, mx).max)
            /\ getThresholds(safetyThresholds', t).value.unit =
                  safetyThresholds[t].unit
            /\ response'.data = getThresholds(safetyThresholds', t).value
            /\ \A o \in DOMAIN safetyThresholds \ {t} :
                  /\ o \in DOMAIN safetyThresholds'
                  /\ safetyThresholds'[o] = safetyThresholds[o]
            /\ DOMAIN safetyThresholds' = DOMAIN safetyThresholds]_vars

\* C10 witness: updateThreshold('TEMPERATURE', {max: 90}) succeeded; max is
\* 90 and min is still the default 20
C10_Witness ==
    /\ response.op = "updateThreshold" /\ response.status = 200
    /\ safetyThresholds.TEMPERATURE.max = 90000
    /\ safetyThresholds.TEMPERATURE.min = 20000
    /\ safetyThresholds.TEMPERATURE.unit = "C"

\* C11  A rejected threshold update changes nothing: an update that names a
\* sensor type outside the known set, or that supplies neither min nor max,
\* is answered with an error status and leaves the threshold table (its key
\* set and every entry) as it was.
C11_RejectedUpdateChangesNothing ==
    [][\A t \in RequestTypes, mn \in BodyValues, mx \in BodyValues :
         (/\ UpdateThreshold(t, mn, mx)
          /\ (t \notin SensorTypes \/ (mn = Undefined /\ mx = Undefined)))
         => /\ response'.status >= 400
            /\ safetyThresholds' = safetyThresholds]_vars

\* the readings of the call that the step from checkRun to checkRun' looked at
JudgedInStep ==
    IF checkRun # NoRun /\ ~checkRun.done /\ checkRun'.readings = checkRun.readings
       /\ Len(checkRun'.judged) >= Len(checkRun.judged)
    THEN (Len(checkRun.judged) + 1)..Len(checkRun'.judged)
    ELSE 1..Len(checkRun'.judged)

C13_SubscribeIdempotent ==
    [][\A c \in ConnIds, ch \in Channels :
         /\ Subscribe(c, ch) =>
               /\ DOMAIN activeConnections' = DOMAIN activeConnections
               /\ ~crashed'
               /\ c \notin DOMAIN activeConnections =>
                     activeConnections' = activeConnections
               /\ c \in DOMAIN activeConnections =>
                     /\ activeConnections'[c].subscriptions[ch] = TRUE
                     /\ setSubscription(activeConnections'[c], ch, TRUE)
                           = activeConnections'[c]
         /\ Unsubscribe(c, ch) =>
               /\ DOMAIN activeConnections' = DOMAIN activeConnections
               /\ ~crashed'
               /\ c \notin DOMAIN activeConnections =>
                     activeConnections' = activeConnections
               /\ c \in DOMAIN activeConnections =>
                     /\ activeConnections'[c].subscriptions[ch] = FALSE
                     /\ setSubscription(activeConnections'[c], ch, FALSE)
                           = activeConnections'[c]]_vars

\* C13 witness: c1 has disconnected and has no entry; c2 has unsubscribed
\* from safetyAlerts and subscribed to a further channel
C13_Witness ==
    /\ "c1" \in closed
    /\ DOMAIN activeConnections = {"c2"}
    /\ activeConnections["c2"].subscriptions.safetyAlerts = FALSE
    /\ "maintenance" \in DOMAIN activeConnections["c2"].subscriptions
    /\ activeConnections["c2"].subscriptions["maintenance"] = TRUE

\* C14  authenticate always acknowledges: every authenticate command, for any
\* payload and whether or not the connection is registered, is answered with
\* 'authenticated' {success: true} on that socket; the payload becomes the
\* user of the connection exactly when the connection is registered,
\* replacing an earlier one.
C14_AuthenticateAlwaysAcks ==
    [][\A c \in ConnIds, u \in UserData :
         Authenticate(c, u) =>
            /\ emitted' = <<[event |-> "authenticated", to |-> {c},
                             payload |-> <<TRUE>>]>>
            /\ DOMAIN activeConnections' = DOMAIN activeConnections
            /\ c \in DOMAIN activeConnections =>
                  activeConnections'[c].user = u
            /\ c \notin DOMAIN activeConnections =>
                  activeConnections' = activeConnections]_vars

\* the events that are broadcast to subscribers
BroadcastEvents == {"sensorReadings", "safetyAlert", "safetyAlerts"}

\* C15  Disconnect is terminal: a socket that has disconnected has no entry
\* in the registry and is in no later broadcast; connect adds exactly the
\* connecting socket, disconnect removes exactly the disconnecting one and
\* leaves the other entries alone, a repeated disconnect changes nothing, and
\* no other step changes which connections are registered.
C15_DisconnectTerminal ==
    /\ [](/\ DOMAIN activeConnections \cap closed = {}
          /\ \A i \in 1..Len(emitted) :
                emitted[i].event \in BroadcastEvents =>
                    /\ emitted[i].to \cap closed = {}
                    /\ emitted[i].to \subseteq DOMAIN activeConnections)
    /\ [][/\ \A c \in ConnIds :
               /\ Connect(c) =>
                     DOMAIN activeConnections' = DOMAIN activeConnections \cup {c}
               /\ Disconnect(c) =>
                     /\ DOMAIN activeConnections' = DOMAIN activeConnections \ {c}
                     /\ \A o \in DOMAIN activeConnections' :
                           activeConnections'[o] = activeConnections[o]
                     /\ c \in closed =>
                           (activeConnections' = activeConnections
                            /\ closed' = closed)
          /\ (\A c \in ConnIds : ~Connect(c) /\ ~Disconnect(c)) =>
                DOMAIN activeConnections' = DOMAIN activeConnections]_vars

\* C15 witness: c1 connected and disconnected; a later sensorReadings
\* broadcast went to c2 alone
C15_Witness ==
    /\ "c1" \in closed
    /\ DOMAIN activeConnections = {"c2"}
    /\ Len(emitted) = 1
    /\ emitted[1].event = "sensorReadings"
    /\ emitted[1].to = {"c2"}

\* C16  stop() cancels the tick source: the stop function of a handle clears
\* that handle's timer, a cleared timer is never set again, a callback begins
\* only on a timer that is set, and a second stop() changes nothing and
\* raises no error.
C16_StopCancelsTicks ==
    [][/\ \A iv \in 1..started :
            /\ Stop(iv) =>
                  /\ iv \notin intervals'
                  /\ ~crashed'
                  /\ iv \notin intervals => intervals' = intervals
            /\ iv \notin intervals => iv \notin intervals'
       /\ ticksFired' # ticksFired =>
            /\ tickLog'.timer \in intervals
            /\ tickLog'.timer \in intervals']_vars

\* C16 witness: the simulator was started, ticked and was stopped, with
\* ticks still to come had it not been stopped
C16_Witness ==
    /\ started = 1
    /\ intervals = {}
    /\ ticksFired >= 1
    /\ ticksFired < MaxTicks

\* C17  At most one tick source is active at any time: startSimulator called
\* while a simulator is running does not set a second timer.
C17_SingleTickSource == Cardinality(intervals) <= 1

\* C18  Sink write failure is swallowed: when the sink write a callback waits
\* for is rejected, the callback is not ended by it; checkReadings keeps the
\* alert of that reading and goes on with the remaining readings, and the
\* tick then broadcasts its readings, broadcasts its alerts and stores them
\* in the alert log.
C18_SinkFailureSwallowed ==
    [][\A t \in inflight :
         SinkSettle(t, FALSE, "none") =>
            /\ tickLog'.sink = "rejected"
            /\ tickLog'.outcome \in {"done", "suspended"}
            /\ ~crashed' /\ caughtErrors' = caughtErrors
            /\ tickLog'.readings = t.run.readings
            /\ Len(tickLog'.alerts) >= Len(t.run.alerts)
            /\ SubSeq(tickLog'.alerts, 1, Len(t.run.alerts)) = t.run.alerts
            /\ tickLog'.outcome = "done" =>
                  /\ \E i \in 1..Len(emitted') :
                        /\ emitted'[i].event = "sensorReadings"
                        /\ emitted'[i].payload = t.run.readings
                  /\ \E i \in 1..Len(emitted') :
                        /\ emitted'[i].event = "safetyAlerts"
                        /\ emitted'[i].payload = tickLog'.alerts
                  /\ \A k \in 1..Len(tickLog'.alerts) :
                        \E j \in 1..Len(alertsHistory') :
                            alertsHistory'[j] = tickLog'.alerts[k]]_vars

\* C18 witness: the sink write of a tick's vibration alert was rejected; the
\* tick went on to both broadcasts and the alert is in the log
C18_Witness ==
    /\ tickLog.sink = "rejected"
    /\ tickLog.outcome = "done"
    /\ Len(tickLog.alerts) = 1
    /\ Len(emitted) = 2
    /\ emitted[2].event = "safetyAlerts"
    /\ emitted[2].payload = tickLog.alerts
    /\ alertsHistory # <<>> /\ alertsHistory[1] = tickLog.alerts[1]

\* the TEMPERATURE readings of a readings payload
TemperatureOf(readings) ==
    {i \in 1..Len(readings) : readings[i].type = "TEMPERATURE"}

\* C19  End-to-end forced-unsafe scenario: with the base value of
\* TEMPERATURE at 82 and its threshold max at 80, a tick that has run to its
\* end has emitted 'sensorReadings' containing TEMPERATURE and 'safetyAlerts'
\* containing exactly one alert, of type TEMPERATURE, with the value, unit
\* and timestamp of that reading.
C19_ForcedUnsafeTick ==
    tickLog.outcome = "done" =>
        \E i \in 1..Len(emitted), j \in 1..Len(emitted) :
            /\ emitted[i].event = "sensorReadings"
            /\ emitted[j].event = "safetyAlerts"
            /\ Len(emitted[j].payload) = 1
            /\ emitted[j].payload[1].type = "TEMPERATURE"
            /\ \E r \in TemperatureOf(emitted[i].payload) :
                  /\ emitted[j].payload[1].value = emitted[i].payload[r].value
                  /\ emitted[j].payload[1].unit = emitted[i].payload[r].unit
                  /\ emitted[j].payload[1].timestamp =
                        emitted[i].payload[r].timestamp

\* the step is the call number n of updateLatestReadings
IsCallNumber(n) == readingsCounter' = n /\ readingsCounter = n - 1

\* C20  Sampling affects only the history: every call of
\* updateLatestReadings(r) makes the latest readings equal to r; the call
\* whose number is a multiple of HISTORY_SAMPLING_RATE puts a new entry for
\* r at the front of the history, and every other call leaves the history
\* as it was.
C20_SamplingOnlyHistory ==
    [][\A n \in 1..MaxCalls :
          IsCallNumber(n) =>
              /\ latestReadings' = ReadingsOfCall(n)
              /\ IF n % HISTORY_SAMPLING_RATE = 0
                 THEN /\ Len(readingsHistory') >= 1
                      /\ readingsHistory'[1] =
                            [timestamp |-> n, readings |-> ReadingsOfCall(n)]
                      /\ \A i \in 1..Len(readingsHistory) :
                            readingsHistory[i].timestamp # n
                      /\ \A i \in 2..Len(readingsHistory') :
                            readingsHistory'[i] = readingsHistory[i - 1]
                 ELSE readingsHistory' = readingsHistory]_vars

\* an unrecorded call has replaced the latest readings and left the one
\* stored entry alone
C20_Witness ==
    /\ readingsCounter = 3
    /\ latestReadings = ReadingsOfCall(3)
    /\ Len(readingsHistory) = 1
    /\ readingsHistory[1].timestamp = 2

\* the step is a call generateReading(focus)
IsGenerateCall == generated'.phase # "none"

\* the readings generateReading can return for a type without an anomaly
\* contribution
NormalValues(sensorType) ==
    { toFixed2(clampValue(SENSOR_TYPES[sensorType],
          SENSOR_TYPES[sensorType].baseValue
          + timeBasedVariation(SENSOR_TYPES[sensorType], s)
          + noiseOf(SENSOR_TYPES[sensorType], u))) :
      s \in SineSamples, u \in NoiseSamples }

\* C21  Anomaly transition guards: the anomaly of a type changes only inside
\* a generateReading call; it goes from inactive to active only when
\* now >= nextAnomalyTime (endTime becoming now + duration), and from active
\* to inactive only when now >= endTime; ending reschedules at once, with
\* nextAnomalyTime 2 to 3 hours after now and a duration of 2 to 5 minutes;
\* no call both starts and ends an anomaly, and the reading of the call that
\* ends an anomaly carries no anomaly contribution.
C21_AnomalyTransitionGuards ==
    [][/\ anomalyState' # anomalyState => IsGenerateCall
       /\ IsGenerateCall =>
            /\ (~anomalyState[focus].active /\ anomalyState'[focus].active) =>
                  /\ clock >= anomalyState[focus].nextAnomalyTime
                  /\ anomalyState'[focus].endTime =
                        clock + anomalyState[focus].duration
            /\ (anomalyState[focus].active /\ ~anomalyState'[focus].active) =>
                  /\ clock >= anomalyState[focus].endTime
                  /\ anomalyState'[focus].nextAnomalyTime >= clock + 7200
                  /\ anomalyState'[focus].nextAnomalyTime < clock + 10800
                  /\ anomalyState'[focus].duration >= 120
                  /\ anomalyState'[focus].duration < 300
                  /\ generated'.phase = "ended"
                  /\ generated'.reading.value \in NormalValues(focus)
            /\ (~anomalyState[focus].active /\ ~anomalyState'[focus].active) =>
                  anomalyState'[focus] = anomalyState[focus]
            /\ (anomalyState[focus].active /\ anomalyState'[focus].active) =>
                  anomalyState'[focus] = anomalyState[focus]]_vars

\* a call after the end time has ended the anomaly and rescheduled it
C21_Witness ==
    /\ generated.phase = "ended"
    /\ ~anomalyState[generated.type].active
    /\ anomalyState[generated.type].nextAnomalyTime >= clock + 7200
    /\ clock > 7200 + 210 + 30

\* the step is a generateReading(focus) call that computes its value with
\* the anomaly active
IsActiveCall == generated'.phase # "none" /\ anomalyState'[focus].active

\* C22  Anomaly state invariant: when generateReading computes a value with
\* the anomaly active, endTime is the activation time plus the duration
\* drawn at scheduling time (set so by the call that starts the anomaly and
\* kept, like the duration, by the calls inside it),
\* endTime - duration <= now < endTime, so anomalyProgress is in [0, 1), and
\* the anomaly contribution is not negative.
C22_ActiveAnomalyWindow ==
    [][IsActiveCall =>
          /\ anomalyState'[focus].duration = anomalyState[focus].duration
          /\ IF ~anomalyState[focus].active
             THEN anomalyState'[focus].endTime
                      = clock + anomalyState[focus].duration
             ELSE anomalyState'[focus].endTime = anomalyState[focus].endTime
          /\ anomalyState'[focus].endTime - anomalyState'[focus].duration
                <= clock
          /\ clock < anomalyState'[focus].endTime
          /\ anomalyContribution(SENSOR_TYPES[focus], anomalyState'[focus],
                                 clock) >= 0]_vars

\* a call strictly inside the window, with a positive contribution
C22_Witness ==
    /\ generated.phase = "running"
    /\ anomalyState[generated.type].active
    /\ anomalyState[generated.type].endTime
          - anomalyState[generated.type].duration < clock
    /\ anomalyContribution(SENSOR_TYPES[generated.type],
                           anomalyState[generated.type], clock) > 0

\* C23  Anomaly liveness: while the clock advances and generateReading keeps
\* being called, an anomaly scheduled for a time the clock reaches becomes
\* active, and an active anomaly whose end time the clock reaches ends and
\* is rescheduled at least two hours ahead: the anomaly never stays active.
C23_AnomalyLiveness ==
    /\ (~anomalyState[focus].active
          /\ anomalyState[focus].nextAnomalyTime <= MaxClock - 30)
         ~> anomalyState[focus].active
    /\ (anomalyState[focus].active
          /\ anomalyState[focus].endTime <= MaxClock - 30)
         ~> (~anomalyState[focus].active
               /\ anomalyState[focus].nextAnomalyTime >= clock + 7200)

\* a whole cycle is over: the anomaly was started after the first two hours,
\* has ended and is scheduled again
C23_Witness ==
    /\ ~anomalyState[focus].active
    /\ anomalyState[focus].nextAnomalyTime >= 7200 + 120 + 7200
    /\ anomalyState[focus].nextAnomalyTime <= clock + 10800

\* the reading just generated was computed at the peak of an active anomaly
\* (anomalyProgress = 0.5)
AtAnomalyPeak ==
    /\ generated.phase \in {"started", "running"}
    /\ anomalyState[generated.type].active
    /\ 2 * (clock - (anomalyState[generated.type].endTime
                      - anomalyState[generated.type].duration))
          = anomalyState[generated.type].duration

\* C24  Anomaly peak breaches the ceiling: for every sensor type, the value
\* generated at the peak of an active anomaly (anomalyProgress = 0.5) is
\* above the safeMax of the type, whatever the diurnal variation and the
\* noise of the call.
C24_PeakAboveSafeMax ==
    AtAnomalyPeak =>
        Gt(generated.reading.value, SENSOR_TYPES[generated.type].safeMax)

\* C25  Normal operation stays below threshold: a reading generated while
\* no anomaly is active (none running, or the one that ran just ended) is
\* at most the safeMax of its type and within [min, max] of the type's
\* default threshold, so isReadingSafe accepts it under the default table.
C25_NormalReadingSafe ==
    (generated.phase \in {"idle", "ended"}
       /\ ~anomalyState[generated.type].active) =>
        /\ Le(generated.reading.value, SENSOR_TYPES[generated.type].safeMax)
        /\ Ge(generated.reading.value, DEFAULT_THRESHOLDS[generated.type].min)
        /\ Le(generated.reading.value, DEFAULT_THRESHOLDS[generated.type].max)
        /\ safetyThresholds = DEFAULT_THRESHOLDS
        /\ isReadingSafe(safetyThresholds, generated.type,
                         generated.reading.value)

\* the highest normal reading of TEMPERATURE: 60 + 4 + 2.397, rounded
C25_Witness ==
    /\ generated.phase = "idle"
    /\ generated.type = "TEMPERATURE"
    /\ ~anomalyState.TEMPERATURE.active
    /\ generated.reading.value = 66400

\* the callbacks that have been started and are neither suspended at the
\* sink nor ended by an exception: they have run to their end
CompletedTicks ==
    (1..ticksFired) \ ({t.tick : t \in inflight} \cup caughtErrors)

\* C26  Broadcasts follow tick order: the callback that runs to its end
\* (emitting its readings and alerts) does so before every callback started
\* after it, and the alert log, newest first, holds the alerts in the order
\* of the ticks that produced them.
C26_BroadcastsFollowTickOrder ==
    /\ tickLog.outcome = "done" =>
          \A j \in CompletedTicks : j <= tickLog.tick
    /\ \A i \in 1..Len(alertsHistory), j \in 1..Len(alertsHistory) :
          i < j => alertsHistory[i].timestamp >= alertsHistory[j].timestamp

\* stop() has returned for every startSimulator call: no timer is set
AllStopped == started > 0 /\ intervals = {}

\* C27  Nothing is emitted after stop: in a step taken once stop() has
\* returned (no timer set) there is no 'sensorReadings' or 'safetyAlerts'
\* emission and the alert log is not modified, also when a callback was
\* suspended at the sink write at the time of stop().
C27_NothingAfterStop ==
    [][AllStopped => (emitted' = <<>> /\ alertsHistory' = alertsHistory)]_vars

\* the first n entries of a history
FirstEntries(history, n) ==
    SubSeq(history, 1, IF n < 0 THEN 0
                       ELSE IF n > Len(history) THEN Len(history) ELSE n)

\* the entries that hold a reading of the type, each reduced to its
\* timestamp and that reading
ProjectedTo(entries, sensorType) ==
    LET kept == SelectSeq(entries,
                    LAMBDA e : \E i \in 1..Len(e.readings) :
                                  e.readings[i].type = sensorType)
    IN  [i \in 1..Len(kept) |->
            [timestamp |-> kept[i].timestamp,
             readings |-> SelectSeq(kept[i].readings,
                              LAMBDA r : r.type = sensorType)]]

\* min(limit, 100), the limit defaulting to 60
CappedLimit(limit) ==
    IF limit = Undefined THEN DEFAULT_LIMIT
    ELSE IF limit > MAX_LIMIT THEN MAX_LIMIT ELSE limit

\* C28  Typed history query: for a numeric (or absent) limit, the query with
\* a sensorType returns, newest first, one entry for every entry among the
\* first min(limit, 100) of the history that holds a reading of that type,
\* reduced to its timestamp and that reading, and no entry for the others;
\* the query without a type returns the first min(limit, 100) entries as
\* they are.
C28_TypedHistoryQuery ==
    (response.op = "getReadingsHistory" /\ response.limit # NotANumberText) =>
        response.data =
            IF response.sensorType = ""
            THEN FirstEntries(readingsHistory, CappedLimit(response.limit))
            ELSE ProjectedTo(FirstEntries(readingsHistory,
                                          CappedLimit(response.limit)),
                             response.sensorType)

\* the registry with the users of its connections replaced by labels
Relabelled(connections, labels) ==
    [c \in DOMAIN connections |-> [connections[c] EXCEPT !.user = labels[c]]]

\* the subscription to which an event is broadcast
ChannelOf(event) ==
    IF event = "sensorReadings" THEN "sensorReadings" ELSE "safetyAlerts"

\* the subscriptions of every registered connection
SubscriptionsOf(connections) ==
    [c \in DOMAIN connections |-> connections[c].subscriptions]

\* C29  Authentication is a label, not a gate: authenticate with a principal
\* changes no subscription of any connection, registers and removes none,
\* and broadcasts nothing; and every broadcast goes to the connections it
\* would go to had the connections authenticated differently or not at all
\* (any other assignment of users to the same connections).
C29_AuthenticationIsLabel ==
    [][/\ \A c \in ConnIds, u \in UserData \ {"null"} :
             Authenticate(c, u) =>
                 /\ SubscriptionsOf(activeConnections')
                       = SubscriptionsOf(activeConnections)
                 /\ crashed' = crashed
                 /\ \A i \in 1..Len(emitted') :
                       emitted'[i].event \notin BroadcastEvents
       /\ \A i \in 1..Len(emitted') :
             emitted'[i].event \in BroadcastEvents =>
                 \A labels \in [DOMAIN activeConnections' -> UserData] :
                     emitted'[i].to =
                         subscribersOf(Relabelled(activeConnections', labels),
                                       ChannelOf(emitted'[i].event))
      ]_vars

\* c1 has authenticated as alice, c2 has not authenticated, and the
\* readings went to both
C29_Witness ==
    /\ DOMAIN activeConnections = {"c1", "c2"}
    /\ activeConnections["c1"].user = "alice"
    /\ activeConnections["c2"].user = "null"
    /\ Len(emitted) = 1
    /\ emitted[1].event = "sensorReadings"
    /\ emitted[1].to = {"c1", "c2"}

\* the step is a call of the interval callback of the worker variant
IsWorkerTick == ticksFired' = ticksFired + 1

\* the step is a stop() that clears a timer
IsWorkerStop == intervals' # intervals /\ intervals' \subseteq intervals

\* C30  Worker recovery: the 'generate' command of every tick goes to the
\* worker that is current and running (the replacement, once a worker has
\* failed and been replaced), so that its answer can refresh latestReadings,
\* and stop() leaves the current worker stopped.
C30_WorkerRecovery ==
    [][/\ (IsWorkerTick /\ worker \in liveWorkers) =>
             [to |-> worker, tick |-> ticksFired'] \in mailbox'
       /\ IsWorkerStop => worker \notin liveWorkers'
      ]_vars

====
